---------------------------- MODULE Spec2Model ----------------------------
(***************************************************************************)
(* LockIn: the persisted state model (core/storage.ts, core/types.ts), its *)
(* date keys (core/dates.ts) and the App component's handlers (App.tsx)    *)
(* that drive it.                                                          *)
(*                                                                         *)
(* JavaScript values are modelled as follows.                              *)
(*  - an object is a function whose domain is the set of its own property  *)
(*    names (a TLA+ record); a missing property is a name outside DOMAIN;  *)
(*  - a property that holds the value undefined holds Undefined;           *)
(*  - an array is a sequence;                                              *)
(*  - a localStorage entry is a record [kind, val]: kind "absent" is       *)
(*    getItem returning null, "empty" the empty string, "garbage" a text   *)
(*    JSON.parse rejects, and "null", "number", "array", "object" the      *)
(*    JSON type of the text's top-level value, val being that value;       *)
(*  - Date.now() is the variable now (a tick counter), and the local       *)
(*    calendar day of a timestamp is ts \div TicksPerDay;                  *)
(*  - crypto.randomUUID() is a counter (nextId).                           *)
(***************************************************************************)
EXTENDS Integers, Sequences, FiniteSets, TLC

(* ------------------------------ bounds -------------------------------- *)
\* Date.now() ranges over 0..MaxNow.
MaxNow == 2
\* Ticks in one local calendar day.
TicksPerDay == 2
\* The log modal is used at most this many times in a run.
MaxUrges == 1

\* The handler calls the user makes in a session.
MaxGestures == 3

(* --------------------------- core/types.ts ---------------------------- *)
SCHEMA_VERSION == 1

Tabs == {"today", "weekly", "history"}

\* The value undefined held by an optional string property.
Undefined == "<undefined>"

\* The object {} , and the array [].
EmptyObj == [f \in {} |-> 0]

Has(o, k) == k \in DOMAIN o

Put(o, k, v) == [f \in (DOMAIN o) \cup {k} |-> IF f = k THEN v ELSE o[f]]

(* --------------------------- core/dates.ts ---------------------------- *)
\* Local calendar days, as dayKey and fmtShort print them.  The tables are
\* longer than any day the clock reaches.
YmdText == <<"2026-01-01", "2026-01-02", "2026-01-03", "2026-01-04", "2026-01-05">>
ShortText == <<"Jan 1", "Jan 2", "Jan 3", "Jan 4", "Jan 5">>

DayIndex(ts) == (ts \div TicksPerDay) + 1

dayKey(ts) == YmdText[DayIndex(ts)]

fmtShort(ts) == ShortText[DayIndex(ts)]

\* Date.prototype.getDay for the day of index i, 0 for Sunday: 2026-01-01 is
\* a Thursday.
weekdayOf(i) == (i + 3) % 7

\* startOfWeekMonday(d).getTime(), d a timestamp.
startOfWeekMonday(ts) ==
    LET diff == IF weekdayOf(DayIndex(ts)) = 0 THEN -6 ELSE 1 - weekdayOf(DayIndex(ts))
    IN (DayIndex(ts) + diff - 1) * TicksPerDay

\* endOfWeekSunday(d).getTime(): the last instant of the sixth day after the
\* Monday.
endOfWeekSunday(ts) == startOfWeekMonday(ts) + 7 * TicksPerDay - 1

\* todayKey of core/dates.ts, the one App.tsx imports.
todayKey(t) == dayKey(t)

\* todayKey of core/storage.ts, the one the migration uses.
storageTodayKey(t) == fmtShort(t)

(* -------------------------- core/storage.ts --------------------------- *)
KEY_STATE == "lockin.state"
KEY_URGES == "lockin.v1.urges"
KEY_ENERGY == "lockin.v1.energy"
KEY_MISSIONS == "lockin.v1.missions"
KEY_TIMEBLOCKS == "lockin.v1.timeblocks"
KEY_MOOD == "lockin.v1.mood"
KEY_SLEEP == "lockin.v1.sleep"
KEY_SPENT == "lockin.v1.spent"

LegacyKeys == {KEY_URGES, KEY_ENERGY, KEY_MISSIONS, KEY_TIMEBLOCKS,
               KEY_MOOD, KEY_SLEEP, KEY_SPENT}

AllKeys == {KEY_STATE} \cup LegacyKeys

\* localStorage entries.
Absent == [kind |-> "absent"]
EmptyText == [kind |-> "empty"]
Garbage == [kind |-> "garbage"]
JsonNull == [kind |-> "null"]
JsonNumber(n) == [kind |-> "number", val |-> n]
JsonArray(a) == [kind |-> "array", val |-> a]
JsonObject(o) == [kind |-> "object", val |-> o]

getItem(st, k) == st[k]

setItem(st, k, text) == [st EXCEPT ![k] = text]

removeItem(st, k) == [st EXCEPT ![k] = Absent]

\* The properties that may hold undefined: the optional ones of UrgeEntry.
OptionalProps == {"customLabel", "note"}

\* JSON.stringify leaves out every property whose value is undefined.
StripUndefined(o) ==
    [f \in {g \in DOMAIN o : ~(g \in OptionalProps /\ o[g] = Undefined)} |-> o[f]]

StringifyUrges(us) == [i \in 1..Len(us) |-> StripUndefined(us[i])]

StringifyDay(d) ==
    IF Has(d, "urges") THEN [d EXCEPT !.urges = StringifyUrges(d.urges)] ELSE d

StringifyDays(days) == [k \in DOMAIN days |-> StringifyDay(days[k])]

\* JSON.stringify(state), as the text localStorage then holds.
Stringify(s) ==
    JsonObject(IF Has(s, "days") THEN [s EXCEPT !.days = StringifyDays(s.days)] ELSE s)

\* safeParse: the fallback for null, the empty string and a text JSON.parse
\* rejects; the parsed value, whatever its type, otherwise.
safeParse(raw, fallback) ==
    IF raw.kind \in {"absent", "empty"} THEN fallback
    ELSE IF raw.kind = "garbage" THEN fallback
    ELSE raw

defaultMissions ==
    << [text |-> "", done |-> FALSE],
       [text |-> "", done |-> FALSE],
       [text |-> "", done |-> FALSE] >>

defaultDay(day, t) ==
    [day |-> day, energy |-> 3, mood |-> 3, sleep |-> 7, spent |-> 0,
     timeBlocks |-> [am |-> "", pm |-> ""],
     missions |-> defaultMissions, urges |-> <<>>, updatedAt |-> t]

defaultState ==
    [version |-> SCHEMA_VERSION, days |-> EmptyObj, ui |-> [tab |-> "today"]]

\* String.prototype.trim over the texts of the model: " " is a text of
\* white space only.
Trim(s) == IF s = " " THEN "" ELSE s

\* What a gateway call hands back: its return value, the store it leaves and
\* whether it threw (a throwing call returns nothing: ret is then unused).
Outcome(ret, st, threw) == [ret |-> ret, store |-> st, threw |-> threw]

\* The fallbacks of the seven safeParse calls of the migration.
LegacyFallback(k) ==
    CASE k = KEY_URGES -> JsonArray(<<>>)
      [] k = KEY_ENERGY -> JsonNumber(3)
      [] k = KEY_MOOD -> JsonNumber(3)
      [] k = KEY_SLEEP -> JsonNumber(7)
      [] k = KEY_SPENT -> JsonNumber(0)
      [] k = KEY_MISSIONS -> JsonArray(defaultMissions)
      [] k = KEY_TIMEBLOCKS -> JsonObject([am |-> "", pm |-> ""])

readLegacy(st, k) == safeParse(getItem(st, k), LegacyFallback(k))

\* (m.text ?? "").trim().length > 0 for some mission of the list.
someMissionText(ms) == \E i \in 1..Len(ms) : Trim(ms[i].text) # ""

\* hasAnyLegacy taken as: some legacy key is present.
hasAnyLegacyKey(st) == \E k \in LegacyKeys : getItem(st, k) # Absent

hasAnyLegacy(st) ==
    \/ Len(readLegacy(st, KEY_URGES).val) > 0
    \/ readLegacy(st, KEY_ENERGY).val # 3
    \/ readLegacy(st, KEY_MOOD).val # 3
    \/ readLegacy(st, KEY_SLEEP).val # 7
    \/ readLegacy(st, KEY_SPENT).val # 0
    \/ someMissionText(readLegacy(st, KEY_MISSIONS).val)
    \/ Trim(readLegacy(st, KEY_TIMEBLOCKS).val.am) # ""
    \/ Trim(readLegacy(st, KEY_TIMEBLOCKS).val.pm) # ""

\* The snapshot the migration builds for today.
legacyDay(st, t) ==
    LET day == storageTodayKey(t)
        ms == readLegacy(st, KEY_MISSIONS).val
    IN [defaultDay(day, t) EXCEPT
          !.energy = readLegacy(st, KEY_ENERGY).val,
          !.mood = readLegacy(st, KEY_MOOD).val,
          !.sleep = readLegacy(st, KEY_SLEEP).val,
          !.spent = readLegacy(st, KEY_SPENT).val,
          !.missions = IF Len(ms) > 0 THEN ms ELSE defaultMissions,
          !.timeBlocks = readLegacy(st, KEY_TIMEBLOCKS).val,
          !.urges = readLegacy(st, KEY_URGES).val,
          !.updatedAt = t]

\* removeItem for each key of a list, in order.
RECURSIVE removeEach(_, _)
removeEach(st, keys) ==
    IF keys = <<>> THEN st
    ELSE removeEach(removeItem(st, Head(keys)), Tail(keys))

\* migrateLegacyIntoState that returns the migrated state and leaves the
\* store alone.
migrateWithoutSave(st, t, fail) ==
    IF ~hasAnyLegacy(st) THEN Outcome(defaultState, st, FALSE)
    ELSE Outcome([defaultState EXCEPT
                     !.days = Put(EmptyObj, storageTodayKey(t), legacyDay(st, t))],
                 st, FALSE)

\* migrateLegacyIntoState.  fail: localStorage.setItem throws (quota); the
\* write is outside the try block, so the exception leaves the function.
migrateLegacyIntoState(st, t, fail) ==
    IF ~hasAnyLegacy(st) THEN Outcome(defaultState, st, FALSE)
    ELSE LET day == storageTodayKey(t)
             state == [defaultState EXCEPT
                          !.days = Put(EmptyObj, day, legacyDay(st, t))]
         IN IF fail THEN Outcome(defaultState, st, TRUE)
            ELSE Outcome(state,
                         removeEach(setItem(st, KEY_STATE, Stringify(state)),
                                    <<KEY_URGES, KEY_ENERGY, KEY_MISSIONS,
                                      KEY_TIMEBLOCKS, KEY_MOOD, KEY_SLEEP,
                                      KEY_SPENT>>),
                         FALSE)

\* !parsed.ui?.tab
lacksTab(parsed) == ~Has(parsed.ui, "tab") \/ parsed.ui.tab = ""

\* backfillTab with the test dropped: ui is reset on every load.
backfillTabAlways(parsed) == [parsed EXCEPT !.ui = [tab |-> "today"]]

\* backfillTab falling back to the default state, as the other checks do.
backfillTabByDefault(parsed) == IF lacksTab(parsed) THEN defaultState ELSE parsed

\* Ensure ui.tab exists: if (!parsed.ui?.tab) parsed.ui = { tab: "today" }.
backfillTab(parsed) ==
    IF lacksTab(parsed) THEN [parsed EXCEPT !.ui = [tab |-> "today"]] ELSE parsed

\* loadState.
loadState(st, t, fail) ==
    LET raw == getItem(st, KEY_STATE)
    IN IF raw.kind \in {"absent", "empty"} THEN migrateLegacyIntoState(st, t, fail)
       ELSE LET parsed == safeParse(raw, JsonObject(defaultState))
            IN IF parsed.kind \in {"null", "number"} THEN Outcome(defaultState, st, FALSE)
               ELSE IF parsed.kind = "array" THEN Outcome(defaultState, st, FALSE)
               ELSE IF \/ ~Has(parsed.val, "version")
                       \/ ~Has(parsed.val, "days")
                       \/ ~Has(parsed.val, "ui")
                    THEN Outcome(defaultState, st, FALSE)
               ELSE IF parsed.val.version # SCHEMA_VERSION
                    THEN Outcome(defaultState, st, FALSE)
               ELSE Outcome(backfillTab(parsed.val), st, FALSE)

\* saveState: no try block around the write.
saveState(st, state, fail) ==
    IF fail THEN Outcome(state, st, TRUE)
    ELSE Outcome(state, setItem(st, KEY_STATE, Stringify(state)), FALSE)

\* getDay: state.days[day] ?? defaultDay(day).
getDay(state, day, t) ==
    IF Has(state.days, day) THEN state.days[day] ELSE defaultDay(day, t)

\* upsertDay without the updatedAt stamp.
upsertDayUnstamped(state, next, t) ==
    LET old == IF Has(state, "days") THEN state.days ELSE EmptyObj
    IN Put(state, "days", Put(old, next.day, next))

\* upsertDay keeping no other day.
upsertDayAlone(state, next, t) ==
    Put(state, "days", Put(EmptyObj, next.day, Put(next, "updatedAt", t)))

\* upsertDay: { ...state, days: { ...state.days, [next.day]: { ...next, updatedAt: now() } } }.
\* Spreading an undefined days gives {}.
upsertDay(state, next, t) ==
    LET old == IF Has(state, "days") THEN state.days ELSE EmptyObj
    IN Put(state, "days", Put(old, next.day, Put(next, "updatedAt", t)))

\* setTab: { ...state, ui: { ...state.ui, tab } }.
setTab(state, tab) ==
    Put(state, "ui", Put(IF Has(state, "ui") THEN state.ui ELSE EmptyObj, "tab", tab))

\* resetAll without the legacy keys.
resetAllCanonicalOnly(st) == removeItem(st, KEY_STATE)

\* resetAll that leaves the canonical key.
resetAllLegacyOnly(st) ==
    removeEach(st, <<KEY_URGES, KEY_ENERGY, KEY_MISSIONS, KEY_TIMEBLOCKS,
                     KEY_MOOD, KEY_SLEEP, KEY_SPENT>>)

\* resetAll.
resetAll(st) ==
    removeEach(st, <<KEY_STATE, KEY_URGES, KEY_ENERGY, KEY_MISSIONS,
                     KEY_TIMEBLOCKS, KEY_MOOD, KEY_SLEEP, KEY_SPENT>>)

\* commitDay returning the upserted state without saving it.
commitDayUnsaved(st, state, day, t, fail) ==
    Outcome(upsertDay(state, day, t), st, fail)

\* commitDay: upsertDay, then saveState of the result.
commitDay(st, state, day, t, fail) ==
    saveState(st, upsertDay(state, day, t), fail)

(* --------------------- JavaScript number arithmetic ------------------- *)
\* A non-negative number is a sequence of limbs, most significant first,
\* each limb holding LimbBits binary digits, the binary point after limb
\* IntLimbs.  A double is such a number with at most Mantissa significant
\* binary digits; every operation computes the exact result and rounds it to
\* the nearest double, ties to even, as IEEE 754 does.  The numbers of the
\* scoring functions are zero or lie between 2^-(FracBits - Mantissa) and
\* 2^IntBits.
LimbBits == 16
IntLimbs == 1
FracLimbs == 4
Mantissa == 53

Base == 2 ^ LimbBits
Limbs == IntLimbs + FracLimbs
IntBits == IntLimbs * LimbBits
FracBits == FracLimbs * LimbBits
Width == IntBits + FracBits

NumZero == [k \in 1..Limbs |-> 0]

\* Binary digit i of x, digit 1 the most significant.
Bit(x, i) ==
    (x[((i - 1) \div LimbBits) + 1]
        \div (2 ^ (LimbBits - 1 - ((i - 1) % LimbBits)))) % 2

\* The limbs of the integer n < 2^IntBits.
IntLimbsOf(n) == [k \in 1..IntLimbs |-> (n \div (Base ^ (IntLimbs - k))) % Base]

Reverse(s) == [i \in 1..Len(s) |-> s[Len(s) + 1 - i]]

\* The first k limbs of rem / t after the point (rem < t), by long division,
\* and the remainder left after them.
RECURSIVE DivLimbs(_, _, _)
DivLimbs(rem, t, k) ==
    IF k = 0 THEN <<>>
    ELSE <<(Base * rem) \div t>> \o DivLimbs((Base * rem) % t, t, k - 1)

RECURSIVE DivRest(_, _, _)
DivRest(rem, t, k) ==
    IF k = 0 \/ rem = 0 THEN rem ELSE DivRest((Base * rem) % t, t, k - 1)

\* x + unit in limb q: the carry runs through the full limbs left of q.
CarryInto(x, q, unit) ==
    [k \in 1..Limbs |->
        IF k > q THEN x[k]
        ELSE IF k = q THEN (x[q] + unit) % Base
        ELSE IF x[q] + unit >= Base /\ \A j \in (k + 1)..(q - 1) : x[j] = Base - 1
             THEN (x[k] + 1) % Base
        ELSE x[k]]

\* The double nearest to the exact value x + (something below the last
\* digit when sticky), ties to even.
NearestDouble(x, sticky) ==
    IF x = NumZero THEN x
    ELSE LET lead == CHOOSE i \in 1..Width :
                         Bit(x, i) = 1 /\ \A j \in 1..(i - 1) : Bit(x, j) = 0
             last == lead + Mantissa - 1
         IN IF last >= Width THEN x
            ELSE LET q == ((last - 1) \div LimbBits) + 1
                     unit == 2 ^ (LimbBits - 1 - ((last - 1) % LimbBits))
                     rest == sticky \/ \E i \in (last + 2)..Width : Bit(x, i) = 1
                     up == Bit(x, last + 1) = 1 /\ (rest \/ Bit(x, last) = 1)
                     kept == [k \in 1..Limbs |->
                                 IF k < q THEN x[k]
                                 ELSE IF k = q THEN x[q] - (x[q] % unit)
                                 ELSE 0]
                 IN IF up THEN CarryInto(kept, q, unit) ELSE kept

RoundDouble(x, sticky) ==
    SubSeq(NearestDouble(SubSeq(x, 1, Limbs), sticky), 1, Limbs)

\* a / b for integers a >= 0, b > 0.
NumDiv(a, b) ==
    RoundDouble(IntLimbsOf(a \div b) \o DivLimbs(a % b, b, FracLimbs),
                DivRest(a % b, b, FracLimbs) # 0)

\* x * n for a double x and an integer n >= 0: the limbs of the product from
\* limb k of x upwards, least significant first.
RECURSIVE TimesLimbs(_, _, _, _)
TimesLimbs(x, n, k, carry) ==
    IF k = 0 THEN <<>>
    ELSE <<(x[k] * n + carry) % Base>>
             \o TimesLimbs(x, n, k - 1, (x[k] * n + carry) \div Base)

NumTimes(x, n) ==
    IF n = 0 \/ x = NumZero THEN NumZero
    ELSE RoundDouble(Reverse(TimesLimbs(x, n, Len(x), 0)), FALSE)

\* x + y for doubles: the limbs of the sum, least significant first.
RECURSIVE PlusLimbs(_, _, _, _)
PlusLimbs(x, y, k, carry) ==
    IF k = 0 THEN <<>>
    ELSE <<(x[k] + y[k] + carry) % Base>>
             \o PlusLimbs(x, y, k - 1, (x[k] + y[k] + carry) \div Base)

NumPlus(x, y) ==
    IF x = NumZero THEN y
    ELSE IF y = NumZero THEN x
    ELSE RoundDouble(Reverse(PlusLimbs(x, y, Len(x), 0)), FALSE)

\* Math.floor(x): the value of the first k limbs, k = IntLimbs.
RECURSIVE LimbsValue(_, _)
LimbsValue(x, k) == IF k = 0 THEN 0 ELSE Base * LimbsValue(x, k - 1) + x[k]

MathFloor(x) == LimbsValue(x, IntLimbs)

\* x - n for a double x and an integer n with 0 <= n <= x: the digits after
\* the point stay, so the result is exact.
NumMinus(x, n) ==
    [k \in 1..Limbs |-> IF k <= IntLimbs THEN IntLimbsOf(MathFloor(x) - n)[k] ELSE x[k]]

\* Math.round(x) for x >= 0: the nearest integer, a half going up.
MathRound(x) == MathFloor(x) + Bit(x, IntBits + 1)

(* -------------------------- core/scoring.ts --------------------------- *)
clamp(n, min, max) == IF n < min THEN min ELSE IF n > max THEN max ELSE n

\* pct: Math.max(0, Math.min(100, Math.round(n))).
pct(x) == clamp(MathRound(x), 0, 100)

Count(seq, Test(_)) == Cardinality({i \in 1..Len(seq) : Test(seq[i])})

IsActive(m) == Trim(m.text) # ""
IsActiveDone(m) == IsActive(m) /\ m.done
IsResisted(u) == u.resisted
GaveIn(u) == ~u.resisted

\* missionCompletionPercent: pct((done / active.length) * 100).
missionCompletionPercent(missions) ==
    IF Count(missions, IsActive) = 0 THEN 0
    ELSE pct(NumTimes(NumDiv(Count(missions, IsActiveDone),
                             Count(missions, IsActive)), 100))

\* urgeResistPercent: pct((resisted / list.length) * 100).
urgeResistPercent(list) ==
    IF Len(list) = 0 THEN 0
    ELSE pct(NumTimes(NumDiv(Count(list, IsResisted), Len(list)), 100))

sleepScore(hours) ==
    IF hours >= 7 /\ hours <= 8 THEN 100
    ELSE IF hours = 6 THEN 80
    ELSE IF hours = 5 THEN 60
    ELSE IF hours = 4 THEN 40
    ELSE IF hours <= 3 THEN 20
    ELSE IF hours = 9 THEN 90
    ELSE IF hours >= 10 THEN 80
    ELSE 70

\* The grade of a final score, with the bound of CONTROLLED exclusive.
gradeOfAbove(final) ==
    IF final > 90 THEN "CONTROLLED"
    ELSE IF final >= 75 THEN "SOLID"
    ELSE IF final >= 60 THEN "UNSTABLE"
    ELSE "RED"

gradeOf(final) ==
    IF final >= 90 THEN "CONTROLLED"
    ELSE IF final >= 75 THEN "SOLID"
    ELSE IF final >= 60 THEN "UNSTABLE"
    ELSE "RED"

\* The weights 0.4, 0.25, 0.15 and 0.1 as doubles.
Weight(a, b) == NumDiv(a, b)

\* calcDailyScoreFromDay.
calcDailyScoreFromDay(day) ==
    LET urge == urgeResistPercent(day.urges)
        miss == missionCompletionPercent(day.missions)
        energy == pct(NumTimes(NumDiv(clamp(day.energy, 1, 5), 5), 100))
        mood == pct(NumTimes(NumDiv(clamp(day.mood, 1, 5), 5), 100))
        sleep == sleepScore(clamp(day.sleep, 0, 24))
        score == NumPlus(NumPlus(NumPlus(NumPlus(NumTimes(Weight(2, 5), urge),
                                                 NumTimes(Weight(1, 4), miss)),
                                         NumTimes(Weight(3, 20), energy)),
                                 NumTimes(Weight(1, 10), mood)),
                         NumTimes(Weight(1, 10), sleep))
        final == pct(score)
    IN [score |-> final, grade |-> gradeOf(final),
        breakdown |-> [urge |-> urge, miss |-> miss, energy |-> energy,
                       mood |-> mood, sleep |-> sleep]]

\* calcRiskFromDay with the sleep bound inclusive.
calcRiskSleepInclusive(day) ==
    LET gaveIn == Count(day.urges, GaveIn)
        reasons == (IF day.sleep <= 6 THEN <<"Low sleep">> ELSE <<>>)
                   \o (IF day.mood <= 2 THEN <<"Low mood">> ELSE <<>>)
                   \o (IF day.energy <= 2 THEN <<"Low energy">> ELSE <<>>)
                   \o (IF gaveIn >= 2 THEN <<"Multiple slip events">> ELSE <<>>)
    IN [level |-> IF Len(reasons) >= 3 THEN "HIGH"
                  ELSE IF Len(reasons) >= 1 THEN "ELEVATED" ELSE "LOW",
        reasons |-> reasons, gaveIn |-> gaveIn]

\* calcRiskFromDay.
calcRiskFromDay(day) ==
    LET gaveIn == Count(day.urges, GaveIn)
        reasons == (IF day.sleep < 6 THEN <<"Low sleep">> ELSE <<>>)
                   \o (IF day.mood <= 2 THEN <<"Low mood">> ELSE <<>>)
                   \o (IF day.energy <= 2 THEN <<"Low energy">> ELSE <<>>)
                   \o (IF gaveIn >= 2 THEN <<"Multiple slip events">> ELSE <<>>)
    IN [level |-> IF Len(reasons) >= 3 THEN "HIGH"
                  ELSE IF Len(reasons) >= 1 THEN "ELEVATED" ELSE "LOW",
        reasons |-> reasons, gaveIn |-> gaveIn]

\* dayKey of the calendar day with index i; the days before the first one
\* of the tables have keys no state holds.
KeyOfDay(i) == IF i \in 1..Len(YmdText) THEN YmdText[i] ELSE "0000-00-00"

\* day?.urges ?? [] for the day of index i.
UrgesOfDay(state, i) ==
    IF Has(state.days, KeyOfDay(i)) THEN state.days[KeyOfDay(i)].urges ELSE <<>>

\* any && urges.every((u) => u.resisted)
CleanDay(state, i) ==
    /\ Len(UrgesOfDay(state, i)) > 0
    /\ \A j \in 1..Len(UrgesOfDay(state, i)) : UrgesOfDay(state, i)[j].resisted

\* The loop of calcStreakFromState from the day of index i, a day without
\* urges being stepped over.
RECURSIVE streakSkipping(_, _)
streakSkipping(state, i) ==
    IF i < 1 THEN 0
    ELSE IF Len(UrgesOfDay(state, i)) = 0 THEN streakSkipping(state, i - 1)
    ELSE IF CleanDay(state, i) THEN 1 + streakSkipping(state, i - 1)
    ELSE 0

\* The loop of calcStreakFromState from the day of index i.
RECURSIVE streakFrom(_, _)
streakFrom(state, i) ==
    IF CleanDay(state, i) THEN 1 + streakFrom(state, i - 1) ELSE 0

\* calcStreakFromState with days without urges stepped over.
calcStreakSkipping(state, today) == streakSkipping(state, DayIndex(today))

\* calcStreakFromState(state, today), today a timestamp.
calcStreakFromState(state, today) == streakFrom(state, DayIndex(today))

\* The days on which some entry of the list was not resisted.
slipDays(entries) ==
    {dayKey(entries[i].ts) : i \in {j \in 1..Len(entries) : ~entries[j].resisted}}

rankOf(final) ==
    IF final >= 90 THEN "CONTROLLED WEEK"
    ELSE IF final >= 75 THEN "SOLID WEEK"
    ELSE IF final >= 60 THEN "UNSTABLE"
    ELSE "RELAPSE WEEK"

\* calcWeeklyRank.  A score below zero rounds to zero or less and is clamped
\* to 0.
calcWeeklyRank(weekEntries) ==
    LET total == Len(weekEntries)
        resisted == Count(weekEntries, IsResisted)
        resistedPct == IF total > 0 THEN NumTimes(NumDiv(resisted, total), 100)
                       ELSE NumZero
        penalty == Cardinality(slipDays(weekEntries)) * 6
        final == IF MathFloor(resistedPct) < penalty THEN 0
                 ELSE clamp(MathRound(NumMinus(resistedPct, penalty)), 0, 100)
    IN [rank |-> rankOf(final), score |-> final,
        resistedPct |-> MathRound(resistedPct),
        slipDays |-> Cardinality(slipDays(weekEntries))]

(* ------------------------------- state -------------------------------- *)
VARIABLES
    variant,      \* which App.tsx of the repository is running
    quota,        \* localStorage: "tight" when setItem may throw, "free" when not
    store,        \* localStorage: key -> entry
    state,        \* the LockInState the caller (the App component) holds
    mounted,      \* the App component has been mounted
    crashed,      \* an exception left a handler or a render: the tree is gone
    tKey,         \* todayKey() as evaluated by the last render
    logging,      \* the log modal is open
    lastDayRef,   \* lastDayRef.current of the midnight rollover
    undo,         \* the undo record of resetTriggersToday, or NoUndo
    undoTimer,    \* the pending timeout that clears the undo record
    barShown,     \* the last render put the undo bar on the screen
    saveDebounce, \* the pending debounced save and the state it captured
    now,          \* Date.now()
    nextId,       \* urges created so far by the log modal
    alert,        \* the last message shown by window.alert
    gestures,     \* handler calls the user has made
    lastOp,       \* history: the last operation
    arg,          \* history: its input
    threw,        \* history: it threw to its caller
    pre,          \* history: state and store before it
    result        \* history: what the last scoring call returned

vars == <<variant, quota, store, state, mounted, crashed, tKey, logging, lastDayRef,
          undo, undoTimer, barShown, saveDebounce, now, nextId, alert, gestures,
          lastOp, arg, threw, pre, result>>

appVars == <<variant, quota, mounted, crashed, tKey, logging, lastDayRef, undo,
             undoTimer, barShown, saveDebounce, nextId, alert, gestures>>

NoUndo == [set |-> FALSE]
NoTimer == [armed |-> FALSE]
NoArg == [none |-> TRUE]
NoAlert == "none"

\* Whether a write to localStorage throws: setItem throws when the quota is
\* exceeded, and never when there is room.
WriteFails == IF quota = "tight" THEN BOOLEAN ELSE {FALSE}

Snapshot(s, st) == [state |-> s, store |-> st]

(* ------------------------- values of the model ------------------------ *)
\* An urge as the log modal builds it for a listed type: customLabel and
\* note hold undefined.
ListedUrge(id, ts, resisted) ==
    [id |-> id, type |-> "scrolling", customLabel |-> Undefined, intensity |-> 3,
     resisted |-> resisted, note |-> Undefined, ts |-> ts]

\* An urge of type custom with its label.
CustomUrge(id, ts, label) ==
    [id |-> id, type |-> "custom", customLabel |-> label, intensity |-> 5,
     resisted |-> FALSE, ts |-> ts]

\* A day with one urge and one mission, as stored earlier.
StoredDay(day) ==
    [defaultDay(day, 0) EXCEPT
        !.energy = 5,
        !.missions = << [text |-> "x", done |-> TRUE] >>,
        !.urges = << CustomUrge(201, 0, "x") >>]

StoredState ==
    [version |-> SCHEMA_VERSION,
     days |-> Put(EmptyObj, dayKey(0), StoredDay(dayKey(0))),
     ui |-> [tab |-> "weekly"]]

Without(o, k) == [f \in (DOMAIN o) \ {k} |-> o[f]]

\* What the canonical key may hold when the program starts.
CanonTexts ==
    { Absent, EmptyText, Garbage, JsonNull, JsonNumber(5), JsonArray(<<>>),
      JsonObject(defaultState),
      JsonObject(StoredState),
      JsonObject(Without(StoredState, "version")),
      JsonObject(Without(StoredState, "days")),
      JsonObject(Without(StoredState, "ui")),
      JsonObject([StoredState EXCEPT !.version = 2]),
      JsonObject([StoredState EXCEPT !.ui = EmptyObj]) }

\* A legacy value that differs from its default.
LegacyValue(k) ==
    CASE k = KEY_URGES -> JsonArray(<< CustomUrge(101, 0, "x") >>)
      [] k = KEY_ENERGY -> JsonNumber(4)
      [] k = KEY_MOOD -> JsonNumber(2)
      [] k = KEY_SLEEP -> JsonNumber(5)
      [] k = KEY_SPENT -> JsonNumber(10)
      [] k = KEY_MISSIONS -> JsonArray(<< [text |-> "x", done |-> TRUE] >>)
      [] k = KEY_TIMEBLOCKS -> JsonObject([am |-> "x", pm |-> ""])

\* The store with canonical entry c and legacy entries given by pick.
StoreOf(c, present) ==
    [k \in AllKeys |->
        IF k = KEY_STATE THEN c
        ELSE IF k \in present THEN LegacyValue(k) ELSE Absent]

\* Every legacy key present and holding its default, or holding garbage.
UniformLegacy(c, defaults) ==
    [k \in AllKeys |->
        IF k = KEY_STATE THEN c
        ELSE IF defaults THEN LegacyFallback(k) ELSE Garbage]

\* Snapshots a caller passes to upsertDay and commitDay.
CallerDays ==
    { defaultDay(dayKey(0), 0),
      [defaultDay(dayKey(0), 0) EXCEPT
          !.energy = 5, !.urges = << ListedUrge(1, 0, TRUE) >>],
      [defaultDay(dayKey(MaxNow), 0) EXCEPT !.mood = 1] }

(* ------------------- the gateway, called one at a time ---------------- *)
GatewayInit ==
    /\ variant = "storage"
    /\ quota = "tight"
    /\ \/ \E present \in SUBSET LegacyKeys : store = StoreOf(Absent, present)
       \/ \E c \in CanonTexts, present \in {{}, {KEY_URGES}, LegacyKeys} :
              store = StoreOf(c, present)
       \/ \E c \in {Absent, EmptyText, Garbage}, defaults \in BOOLEAN :
              store = UniformLegacy(c, defaults)
    /\ state = defaultState
    /\ mounted = FALSE
    /\ crashed = FALSE
    /\ tKey = todayKey(0)
    /\ logging = FALSE
    /\ lastDayRef = todayKey(0)
    /\ undo = NoUndo
    /\ undoTimer = NoTimer
    /\ barShown = FALSE
    /\ saveDebounce = NoTimer
    /\ now = 0
    /\ nextId = 0
    /\ alert = NoAlert
    /\ gestures = 0
    /\ lastOp = "init"
    /\ arg = NoArg
    /\ threw = FALSE
    /\ pre = Snapshot(defaultState, store)
    /\ result = NoArg

\* A gateway call returned out: the caller keeps its result unless it threw.
\* Every call takes one tick of the clock.
Returned(op, input, out) ==
    /\ now' = now + 1
    /\ store' = out.store
    /\ state' = IF out.threw THEN state ELSE out.ret
    /\ threw' = out.threw
    /\ lastOp' = op
    /\ arg' = input
    /\ pre' = Snapshot(state, store)
    /\ UNCHANGED <<appVars, result>>

GwLoadState ==
    /\ now < MaxNow
    /\ \E fail \in WriteFails :
           Returned("loadState", NoArg, loadState(store, now, fail))

GwSaveState ==
    /\ now < MaxNow
    /\ \E fail \in WriteFails :
           Returned("saveState", NoArg, saveState(store, state, fail))

GwUpsertDay ==
    /\ now < MaxNow
    /\ \E d \in CallerDays :
           Returned("upsertDay", d, Outcome(upsertDay(state, d, now), store, FALSE))

GwCommitDay ==
    /\ now < MaxNow
    /\ \E d \in CallerDays, fail \in WriteFails :
           Returned("commitDay", d, commitDay(store, state, d, now, fail))

GwSetTab ==
    /\ now < MaxNow
    /\ \E tab \in Tabs :
           Returned("setTab", [tab |-> tab], Outcome(setTab(state, tab), store, FALSE))

GwResetAll ==
    /\ now < MaxNow
    /\ Returned("resetAll", NoArg, Outcome(state, resetAll(store), FALSE))

GatewayNext ==
    \/ GwLoadState
    \/ GwSaveState
    \/ GwUpsertDay
    \/ GwCommitDay
    \/ GwSetTab
    \/ GwResetAll

GatewaySpec == GatewayInit /\ [][GatewayNext]_vars

(* ------------------------------ App.tsx ------------------------------- *)
\* The App components of the repository.  Their handlers differ in
\* onImportFile, in the undo bar and in the effects that seed today:
\*   "A"  App.tsx:1-359 (and its copy with the About block)
\*   "B"  App.tsx:360-717
\*   "C"  the App.tsx that reports nothing from onImportFile
Variants == {"A", "B", "C"}

\* Ticks of the undo window (5000 ms).
UndoWindow == 1

Armed(s) == [armed |-> TRUE, state |-> s]

\* What the stores of an installation hold when the App starts.
AppStores ==
    { StoreOf(Absent, {}),
      StoreOf(Absent, {KEY_URGES, KEY_ENERGY}),
      StoreOf(JsonObject(StoredState), {}) }

\* The tabs the user clicks.
ClickedTabs == {"today", "history"}

\* What the Today screen passes to onEditDay.
Patches == { [energy |-> 1] }

\* What the log modal passes to onSave: customLabel is the trimmed label of a
\* custom type and undefined otherwise, note is undefined when left empty.
ModalEntries ==
    { [type |-> "scrolling", customLabel |-> Undefined, intensity |-> 3,
       resisted |-> TRUE, note |-> Undefined],
      [type |-> "custom", customLabel |-> Trim("x"), intensity |-> 5,
       resisted |-> FALSE, note |-> Undefined] }

\* The states found in backup files.
BackupDay(key, day) ==
    [defaultDay(day, 0) EXCEPT !.mood = 1, !.urges = << CustomUrge(301, 0, "x") >>]

GoodBackupState ==
    [version |-> SCHEMA_VERSION,
     days |-> Put(EmptyObj, dayKey(0), BackupDay(dayKey(0), dayKey(0))),
     ui |-> [tab |-> "history"]]

BackupStates ==
    { GoodBackupState,
      Without(GoodBackupState, "days"),
      Without(GoodBackupState, "ui"),
      [GoodBackupState EXCEPT !.version = 2],
      [GoodBackupState EXCEPT
          !.days = Put(EmptyObj, dayKey(0), BackupDay(dayKey(0), dayKey(MaxNow)))],
      [GoodBackupState EXCEPT
          !.days = Put(EmptyObj, dayKey(0),
                       [BackupDay(dayKey(0), dayKey(0)) EXCEPT
                           !.urges = << CustomUrge(302, 0, " ") >>])] }

\* The texts of backup files: not JSON, or a JSON object.
BackupFiles ==
    { Garbage,
      JsonObject([version |-> 1, exportedAt |-> 0]),
      JsonObject([version |-> 2, exportedAt |-> 0, state |-> GoodBackupState]) }
    \cup { JsonObject([version |-> 1, exportedAt |-> 0, state |-> b]) : b \in BackupStates }

Installed(q) ==
    /\ variant \in Variants
    /\ quota = q
    /\ store \in AppStores
    /\ state = defaultState
    /\ mounted = FALSE
    /\ crashed = FALSE
    /\ tKey = todayKey(0)
    /\ logging = FALSE
    /\ lastDayRef = todayKey(0)
    /\ undo = NoUndo
    /\ undoTimer = NoTimer
    /\ barShown = FALSE
    /\ saveDebounce = NoTimer
    /\ now = 0
    /\ nextId = 0
    /\ alert = NoAlert
    /\ gestures = 0
    /\ lastOp = "init"
    /\ arg = NoArg
    /\ threw = FALSE
    /\ pre = Snapshot(defaultState, StoreOf(Absent, {}))
    /\ result = NoArg

\* An installation whose storage may refuse a write.
Init == Installed("tight")

\* The history every operation of App records (pre is the gateway's).
Did(op, input, escaped) ==
    /\ lastOp' = op
    /\ arg' = input
    /\ threw' = escaped
    /\ UNCHANGED <<pre, result>>

\* The render of App throws: getDay(state, tKey) reads state.days[tKey].
RenderThrows(s) == ~Has(s, "days")

\* An exception left an updater or a render.  No error boundary catches it:
\* React unmounts the tree, and no handler runs afterwards.  The pending
\* timers stay.
Crash(op, input) ==
    /\ crashed' = TRUE
    /\ alert' = NoAlert
    /\ Did(op, input, TRUE)
    /\ UNCHANGED <<variant, quota, store, state, mounted, tKey, logging, lastDayRef,
                   undo, undoTimer, barShown, saveDebounce, now, nextId>>

\* A render of App: tKey is evaluated again, and the undo bar is on the
\* screen when the undo record u is set and not expired.
Render(u) ==
    /\ tKey' = todayKey(now)
    /\ barShown' = (u.set /\ now < u.expiresAt)

\* setState took the new object s2, the store became st2 and the undo record
\* is u: App renders and the save effect re-arms its timer with s2.
Commit(op, input, s2, st2, u) ==
    /\ state' = s2
    /\ store' = st2
    /\ Did(op, input, FALSE)
    /\ alert' = NoAlert
    /\ Render(u)
    /\ saveDebounce' = Armed(s2)
    /\ UNCHANGED <<variant, quota, mounted, crashed, now>>

\* The updater returned prev itself: nothing renders.
Kept(op, input) ==
    /\ Did(op, input, FALSE)
    /\ alert' = NoAlert
    /\ UNCHANGED <<variant, quota, store, state, mounted, crashed, tKey, logging,
                   lastDayRef, undo, undoTimer, barShown, saveDebounce, now,
                   nextId>>

\* useState(() => loadState()), then the effects of the first commits: the
\* initial load, the save effect and, in B, the seeding of today's entry.
Mount ==
    /\ ~mounted /\ ~crashed
    /\ UNCHANGED gestures
    /\ \E fail \in WriteFails :
         LET first == loadState(store, now, fail)
             second == loadState(first.store, now, fail)
             key == todayKey(now)
             seeded == IF variant = "B" /\ ~Has(second.ret.days, key)
                       THEN commitDay(second.store, second.ret,
                                      defaultDay(key, now), now, fail)
                       ELSE Outcome(second.ret, second.store, FALSE)
         IN IF first.threw \/ second.threw \/ seeded.threw
            THEN /\ Crash("mount", NoArg)
            ELSE /\ mounted' = TRUE
                 /\ state' = seeded.ret
                 /\ store' = seeded.store
                 /\ Render(undo)
                 /\ lastDayRef' = key
                 /\ saveDebounce' = Armed(seeded.ret)
                 /\ alert' = NoAlert
                 /\ Did("mount", NoArg, FALSE)
                 /\ UNCHANGED <<variant, quota, crashed, logging, undo, undoTimer,
                                now, nextId>>

Ready == mounted /\ ~crashed

\* The user calls a handler.
Gesture == gestures < MaxGestures /\ gestures' = gestures + 1

\* setTab.
SetTab ==
    /\ Ready /\ Gesture
    /\ \E tab \in ClickedTabs :
         /\ Commit("setTab", [tab |-> tab], setTab(state, tab), store, undo)
         /\ UNCHANGED <<logging, lastDayRef, undo, undoTimer, nextId>>

\* { ...current, ...patch, day: tKey }
Patched(current, patch, key) ==
    [f \in (DOMAIN current) \cup (DOMAIN patch) \cup {"day"} |->
        IF f = "day" THEN key
        ELSE IF f \in DOMAIN patch THEN patch[f] ELSE current[f]]

\* editToday.
editToday(s, patch, key, t) ==
    Put(s, "days", Put(s.days, key, Patched(getDay(s, key, t), patch, key)))

EditToday ==
    /\ Ready /\ Gesture
    /\ \E patch \in Patches :
         /\ Commit("editToday", patch, editToday(state, patch, tKey, now), store,
                   undo)
         /\ UNCHANGED <<logging, lastDayRef, undo, undoTimer, nextId>>

\* openLogModal: setLogging(true) renders App again.
OpenLogModal ==
    /\ Ready /\ ~logging /\ Gesture
    /\ logging' = TRUE
    /\ Render(undo)
    /\ alert' = NoAlert
    /\ Did("openLogModal", NoArg, FALSE)
    /\ UNCHANGED <<variant, quota, store, state, mounted, crashed, lastDayRef, undo,
                   undoTimer, saveDebounce, now, nextId>>

\* addUrge: the updater commits day tKey with the new urge in front.
addUrge(st, s, entry, id, key, t, fail) ==
    LET next == Put(Put(entry, "id", id), "ts", t)
        d == getDay(s, key, t)
    IN commitDay(st, s, [d EXCEPT !.urges = <<next>> \o d.urges], t, fail)

AddUrge ==
    /\ Ready /\ logging /\ Gesture
    /\ nextId < MaxUrges
    /\ \E entry \in ModalEntries, fail \in WriteFails :
         LET out == addUrge(store, state, entry, nextId + 1, tKey, now, fail)
             input == [entry |-> entry]
         IN IF out.threw
            THEN Crash("addUrge", input)
            ELSE /\ Commit("addUrge", input, out.ret, out.store, undo)
                 /\ logging' = FALSE
                 /\ nextId' = nextId + 1
                 /\ UNCHANGED <<lastDayRef, undo, undoTimer>>

\* resetTriggersToday, confirmed.  With no urge today the updater returns
\* prev and nothing else happens.
ResetTriggersToday ==
    /\ Ready /\ Gesture
    /\ \E fail \in WriteFails :
         LET d == getDay(state, tKey, now)
             out == commitDay(store, state, [d EXCEPT !.urges = <<>>], now, fail)
             input == NoArg
             record == [set |-> TRUE, prevDay |-> d, expiresAt |-> now + UndoWindow]
         IN IF Len(d.urges) = 0
            THEN Kept("resetTriggersToday", input)
            ELSE IF out.threw
            THEN Crash("resetTriggersToday", input)
            ELSE /\ Commit("resetTriggersToday", input, out.ret, out.store, record)
                 /\ undo' = record
                 /\ undoTimer' = [armed |-> TRUE, at |-> now + UndoWindow]
                 /\ UNCHANGED <<logging, lastDayRef, nextId>>

\* undoReset, from the undo bar that A and B render while the undo record is
\* set and, at the time of the render, not expired.
UndoReset ==
    /\ Ready /\ variant \in {"A", "B"} /\ Gesture
    /\ barShown /\ undo.set
    /\ \E fail \in WriteFails :
         LET out == commitDay(store, state, undo.prevDay, now, fail)
             input == NoArg
         IN IF out.threw
            THEN Crash("undoReset", input)
            ELSE /\ Commit("undoReset", input, out.ret, out.store, NoUndo)
                 /\ undo' = NoUndo
                 /\ undoTimer' = NoTimer
                 /\ UNCHANGED <<logging, lastDayRef, nextId>>

\* The timeout of resetTriggersToday: setUndo(null).
UndoTimerFires ==
    /\ Ready
    /\ undoTimer.armed /\ now >= undoTimer.at
    /\ UNCHANGED gestures
    /\ undo' = NoUndo
    /\ undoTimer' = NoTimer
    /\ Render(NoUndo)
    /\ alert' = NoAlert
    /\ Did("undoTimer", NoArg, FALSE)
    /\ UNCHANGED <<variant, quota, store, state, mounted, crashed, logging, lastDayRef,
                   saveDebounce, now, nextId>>

\* fullResetEverything, confirmed: resetAll(), then setState(loadState()).
FullResetEverything ==
    /\ Ready /\ Gesture
    /\ \E fail \in WriteFails :
         LET out == loadState(resetAll(store), now, fail)
             input == NoArg
         IN IF out.threw
            THEN Crash("fullResetEverything", input)
            ELSE /\ state' = out.ret
                 /\ store' = out.store
                 /\ undo' = NoUndo
                 /\ logging' = FALSE
                 /\ lastDayRef' = IF variant = "B" THEN todayKey(now) ELSE lastDayRef
                 /\ Render(NoUndo)
                 /\ saveDebounce' = Armed(out.ret)
                 /\ alert' = NoAlert
                 /\ Did("fullResetEverything", input, FALSE)
                 /\ UNCHANGED <<variant, quota, mounted, crashed, undoTimer, now, nextId>>

\* onImportFile accepts the parsed file: A and C ask for a state and version
\* 1, B also for state.days and state.ui.
ImportError(file) ==
    IF file.kind # "object" THEN "Unexpected token"
    ELSE IF ~Has(file.val, "state") \/ file.val.version # 1 THEN "Invalid backup file."
    ELSE IF variant = "B" /\ (~Has(file.val.state, "days") \/ ~Has(file.val.state, "ui"))
         THEN "Backup missing required fields."
    ELSE "none"

\* What onImportFile tells the user: A and B alert, C only tracks the event.
Alerted(msg) == IF variant = "C" THEN NoAlert ELSE msg

\* onImportFile, once the file is read.  setState(nextState) comes before
\* saveState(nextState); a throwing save is caught and reported.
OnImportFile ==
    /\ Ready /\ Gesture
    /\ \E file \in BackupFiles, fail \in WriteFails :
         LET input == [file |-> file]
             err == ImportError(file)
         IN IF err # "none"
            THEN /\ alert' = Alerted(err)
                 /\ Did("onImportFile", input, FALSE)
                 /\ UNCHANGED <<variant, quota, store, state, mounted, crashed, tKey,
                                logging, lastDayRef, undo, undoTimer, barShown,
                                saveDebounce, now, nextId>>
            ELSE LET nextState == file.val.state
                     out == saveState(store, nextState, fail)
                 IN /\ state' = nextState
                    /\ store' = out.store
                    /\ alert' = Alerted(IF out.threw THEN "QuotaExceededError"
                                        ELSE "Backup imported successfully.")
                    /\ Did("onImportFile", input, FALSE)
                    /\ IF RenderThrows(nextState)
                       THEN crashed' = TRUE /\ UNCHANGED <<tKey, barShown, saveDebounce>>
                       ELSE /\ crashed' = FALSE
                            /\ Render(undo)
                            /\ saveDebounce' = Armed(nextState)
                    /\ UNCHANGED <<variant, quota, mounted, logging, lastDayRef, undo,
                                   undoTimer, now, nextId>>

\* The urges of day snap without those of identifier id.
RECURSIVE withoutId(_, _)
withoutId(us, id) ==
    IF us = <<>> THEN <<>>
    ELSE IF Head(us).id = id THEN withoutId(Tail(us), id)
    ELSE <<Head(us)>> \o withoutId(Tail(us), id)

\* deleteEntry: the updater returns prev when the day is not in the state.
deleteEntry(st, s, day, id, t, fail) ==
    IF ~Has(s.days, day) THEN Outcome(s, st, FALSE)
    ELSE commitDay(st, s, [s.days[day] EXCEPT !.urges = withoutId(@, id)], t, fail)

\* The identifiers the History screen offers for a day, and one it does not.
IdsOf(s, day) ==
    IF Has(s.days, day)
    THEN {s.days[day].urges[i].id : i \in 1..Len(s.days[day].urges)} \cup {0}
    ELSE {0}

DeleteEntry ==
    /\ Ready /\ Gesture
    /\ \E day \in (DOMAIN state.days) \cup {dayKey(MaxNow)}, fail \in WriteFails :
         \E id \in IdsOf(state, day) :
           LET out == deleteEntry(store, state, day, id, now, fail)
               input == [day |-> day, id |-> id]
           IN IF ~Has(state.days, day)
              THEN Kept("deleteEntry", input)
              ELSE IF out.threw
              THEN Crash("deleteEntry", input)
              ELSE /\ Commit("deleteEntry", input, out.ret, out.store, undo)
                   /\ UNCHANGED <<logging, lastDayRef, undo, undoTimer, nextId>>

\* for (const u of urges) onDelete(selectedDay, u.id): the updaters run one
\* after the other, each on the state the one before returned.
RECURSIVE deleteEach(_, _, _, _, _, _)
deleteEach(st, s, day, us, t, fail) ==
    IF us = <<>> THEN Outcome(s, st, FALSE)
    ELSE LET out == deleteEntry(st, s, day, Head(us).id, t, fail)
         IN IF out.threw THEN out
            ELSE deleteEach(out.store, out.ret, day, Tail(us), t, fail)

\* clearSelectedDay of the History screen, confirmed: nothing without a
\* snapshot of the selected day or without urges in it.
clearSelectedDay(st, s, day, t, fail) ==
    IF ~Has(s.days, day) THEN Outcome(s, st, FALSE)
    ELSE IF Len(s.days[day].urges) = 0 THEN Outcome(s, st, FALSE)
    ELSE deleteEach(st, s, day, s.days[day].urges, t, fail)

\* The History screen is on: tab === "history".
HistoryShown == Has(state, "ui") /\ Has(state.ui, "tab") /\ state.ui.tab = "history"

ClearSelectedDay ==
    /\ Ready /\ HistoryShown /\ Gesture
    /\ \E day \in DOMAIN state.days, fail \in WriteFails :
         LET out == clearSelectedDay(store, state, day, now, fail)
             input == [day |-> day]
         IN IF Len(state.days[day].urges) = 0
            THEN Kept("clearSelectedDay", input)
            ELSE IF out.threw
            THEN Crash("clearSelectedDay", input)
            ELSE /\ Commit("clearSelectedDay", input, out.ret, out.store, undo)
                 /\ UNCHANGED <<logging, lastDayRef, undo, undoTimer, nextId>>

\* The debounced save fires: try { saveState(state); pulseSaved() } catch {}.
\* pulseSaved renders App again.
DebouncedSave ==
    /\ mounted
    /\ saveDebounce.armed
    /\ UNCHANGED gestures
    /\ \E fail \in WriteFails :
         LET out == saveState(store, saveDebounce.state, fail)
         IN /\ store' = out.store
            /\ saveDebounce' = NoTimer
            /\ IF out.threw \/ crashed
               THEN UNCHANGED <<tKey, barShown>>
               ELSE Render(undo)
            /\ alert' = NoAlert
            /\ Did("debouncedSave", NoArg, FALSE)
            /\ UNCHANGED <<variant, quota, state, mounted, crashed, logging, lastDayRef,
                           undo, undoTimer, now, nextId>>

\* The midnight rollover of B: tick() sees a new day, seeds it and switches
\* to the Today tab.
MidnightRollover ==
    /\ Ready /\ variant = "B"
    /\ todayKey(now) # lastDayRef
    /\ UNCHANGED gestures
    /\ \E fail \in WriteFails :
         LET nowKey == todayKey(now)
             next == IF Has(state.days, nowKey) THEN Outcome(state, store, FALSE)
                     ELSE commitDay(store, state, defaultDay(nowKey, now), now, fail)
             input == NoArg
         IN IF next.threw
            THEN Crash("midnightRollover", input)
            ELSE /\ Commit("midnightRollover", input, setTab(next.ret, "today"),
                           next.store, undo)
                 /\ lastDayRef' = nowKey
                 /\ UNCHANGED <<logging, undo, undoTimer, nextId>>

\* Time passes.
Tick ==
    /\ ~crashed
    /\ now < MaxNow
    /\ now' = now + 1
    /\ UNCHANGED <<variant, quota, store, state, mounted, crashed, tKey, logging,
                   lastDayRef, undo, undoTimer, barShown, saveDebounce, nextId,
                   alert, gestures, lastOp, arg, threw, pre, result>>

Next ==
    \/ Mount
    \/ SetTab
    \/ EditToday
    \/ OpenLogModal
    \/ AddUrge
    \/ ResetTriggersToday
    \/ UndoReset
    \/ UndoTimerFires
    \/ FullResetEverything
    \/ OnImportFile
    \/ DeleteEntry
    \/ ClearSelectedDay
    \/ DebouncedSave
    \/ MidnightRollover
    \/ Tick

Spec == Init /\ [][Next]_vars

\* An installation whose storage has room: no write fails.  A timeout that
\* is pending fires, so the debounced save is not postponed forever.
RoomyInit == Installed("free")

RoomySpec == RoomyInit /\ [][Next]_vars /\ WF_vars(DebouncedSave)

(* ---------------------- the scoring functions, called ----------------- *)
\* total urges of a listed type on the day of index i, the first resisted
\* of them resisted.
ScoreUrges(i, total, resisted) ==
    [j \in 1..total |-> ListedUrge(100 * i + j, (i - 1) * TicksPerDay, j <= resisted)]

\* The lengths of the urge lists and how many of their urges were resisted.
UrgeCounts == { <<0, 0>>, <<1, 1>>, <<1, 0>>, <<2, 0>>, <<3, 2>>, <<8, 1>>, <<40, 23>> }

\* Mission lists: none active, one of three done, one of two active done,
\* all done.
MissionLists ==
    { defaultMissions,
      << [text |-> "x", done |-> TRUE], [text |-> "y", done |-> FALSE],
         [text |-> "z", done |-> FALSE] >>,
      << [text |-> "x", done |-> TRUE], [text |-> " ", done |-> TRUE],
         [text |-> "y", done |-> FALSE] >>,
      << [text |-> "x", done |-> TRUE] >> }

\* The ratings of a day: inside and outside 1..5, and hours of sleep.
EnergyRatings == {0, 2, 5, 6}
MoodRatings == {2, 3, 5}
SleepHours == {3, 4, 5, 6, 7, 9, 10}

\* A state with one rated day.
RatedStates ==
    { [defaultState EXCEPT !.days = Put(EmptyObj, dayKey(0),
          [defaultDay(dayKey(0), 0) EXCEPT
              !.energy = e, !.mood = m, !.sleep = h, !.missions = ms,
              !.urges = ScoreUrges(1, c[1], c[2])])] :
        e \in EnergyRatings, m \in MoodRatings, h \in SleepHours,
        ms \in MissionLists, c \in UrgeCounts }

\* The days a streak runs over, and what a day holds: no entry, an entry
\* without urges, only resisted urges, or an urge that was not resisted.
StreakDays == 1..3
DayShapes == {"absent", "empty", "clean", "dirty"}

ShapedDay(i, shape) ==
    [defaultDay(KeyOfDay(i), 0) EXCEPT
        !.urges = CASE shape = "empty" -> <<>>
                    [] shape = "clean" -> ScoreUrges(i, 2, 2)
                    [] shape = "dirty" -> ScoreUrges(i, 2, 1)]

ShapedState(shapes) ==
    [defaultState EXCEPT !.days =
        [k \in {KeyOfDay(i) : i \in {j \in StreakDays : shapes[j] # "absent"}} |->
            ShapedDay(CHOOSE i \in StreakDays : KeyOfDay(i) = k,
                      shapes[CHOOSE i \in StreakDays : KeyOfDay(i) = k])]]

StreakStates == { ShapedState(shapes) : shapes \in [StreakDays -> DayShapes] }

\* A week of ten entries, five resisted, with slips on two days.
TenEntryWeek ==
    [defaultState EXCEPT !.days =
        (KeyOfDay(1) :> [defaultDay(KeyOfDay(1), 0) EXCEPT !.urges = ScoreUrges(1, 5, 2)])
        @@ (KeyOfDay(2) :> [defaultDay(KeyOfDay(2), 0) EXCEPT !.urges = ScoreUrges(2, 5, 3)])]

\* Urges of this week's Sunday and of the Monday after it, at the first and
\* at the last instant of that Monday.
TwoWeekState ==
    [defaultState EXCEPT !.days =
        (KeyOfDay(4) :> [defaultDay(KeyOfDay(4), 0) EXCEPT !.urges = ScoreUrges(4, 2, 2)])
        @@ (KeyOfDay(5) :> [defaultDay(KeyOfDay(5), 0) EXCEPT !.urges =
                << ListedUrge(501, 4 * TicksPerDay, FALSE),
                   ListedUrge(502, 5 * TicksPerDay - 1, FALSE) >>])]

ScoringInit ==
    /\ variant = "scoring"
    /\ quota = "tight"
    /\ \/ state \in RatedStates /\ now = 0
       \/ state \in StreakStates \cup {TenEntryWeek, TwoWeekState}
          /\ now \in {(i - 1) * TicksPerDay : i \in StreakDays}
    /\ store = StoreOf(Absent, {})
    /\ mounted = FALSE
    /\ crashed = FALSE
    /\ tKey = todayKey(0)
    /\ logging = FALSE
    /\ lastDayRef = todayKey(0)
    /\ undo = NoUndo
    /\ undoTimer = NoTimer
    /\ barShown = FALSE
    /\ saveDebounce = NoTimer
    /\ nextId = 0
    /\ alert = NoAlert
    /\ gestures = 0
    /\ lastOp = "init"
    /\ arg = NoArg
    /\ threw = FALSE
    /\ pre = Snapshot(defaultState, store)
    /\ result = NoArg

\* The input of the state has not been scored yet.
Unscored == variant = "scoring" /\ lastOp = "init"

\* A scoring function returned value for input.
Scored(op, input, value) ==
    /\ lastOp' = op
    /\ arg' = input
    /\ result' = value
    /\ UNCHANGED <<appVars, store, state, now, threw, pre>>

\* flattenUrges over the days of the state, in calendar order.
RECURSIVE flattenUrges(_, _)
flattenUrges(s, i) ==
    IF i = 0 THEN <<>> ELSE flattenUrges(s, i - 1) \o UrgesOfDay(s, i)

ScUrgeResistPercent ==
    /\ Unscored
    /\ \E k \in DOMAIN state.days :
           Scored("urgeResistPercent", state.days[k].urges,
                  urgeResistPercent(state.days[k].urges))

ScCalcDailyScoreFromDay ==
    /\ Unscored
    /\ \E k \in DOMAIN state.days :
           Scored("calcDailyScoreFromDay", state.days[k],
                  calcDailyScoreFromDay(state.days[k]))

ScCalcRiskFromDay ==
    /\ Unscored
    /\ \E k \in DOMAIN state.days :
           Scored("calcRiskFromDay", state.days[k], calcRiskFromDay(state.days[k]))

ScCalcStreakFromState ==
    /\ Unscored
    /\ Scored("calcStreakFromState", [today |-> now], calcStreakFromState(state, now))

ScCalcWeeklyRank ==
    /\ Unscored
    /\ Scored("calcWeeklyRank", flattenUrges(state, Len(YmdText)),
              calcWeeklyRank(flattenUrges(state, Len(YmdText))))

(* -------------------------- screens/Weekly.tsx ------------------------ *)
\* The text the Weekly screen shows when it has no rank.
NoRank == "-"

\* addDays(d, n).getTime(), d a timestamp.
addDays(ts, n) == ts + n * TicksPerDay

\* urgesThisWeek: the urges with start <= ts < end.
urgesThisWeek(urges, t) ==
    SelectSeq(urges, LAMBDA u : /\ u.ts >= startOfWeekMonday(t)
                                /\ u.ts < addDays(endOfWeekSunday(t), 1))

\* calcWeeklyRank as JavaScript runs it on any value: args.weekEntries is
\* undefined unless args is an object with that property, and reading the
\* length of undefined throws a TypeError.
calcWeeklyRankCalled(args) ==
    IF args.kind = "object" /\ Has(args.val, "weekEntries")
    THEN Outcome(calcWeeklyRank(args.val.weekEntries), EmptyObj, FALSE)
    ELSE Outcome(NoArg, EmptyObj, TRUE)

\* weeklyRank: calcWeeklyRank(urgesThisWeek as any), its rank, or the
\* placeholder when the call throws.
weeklyRank(urges, t) ==
    LET called == calcWeeklyRankCalled(JsonArray(urgesThisWeek(urges, t)))
    IN IF called.threw THEN NoRank ELSE called.ret.rank

ScWeeklyRank ==
    /\ Unscored
    /\ Scored("weeklyRank", [urges |-> flattenUrges(state, Len(YmdText)), now |-> now],
              weeklyRank(flattenUrges(state, Len(YmdText)), now))

(* -------------------------- screens/Today.tsx ------------------------- *)
\* calcDailyScore of the Today screen: the ratings are taken as they are.
calcDailyScore(args) ==
    LET urge == urgeResistPercent(args.todays)
        miss == missionCompletionPercent(args.missions)
        energy == pct(NumTimes(NumDiv(args.energy, 5), 100))
        mood == pct(NumTimes(NumDiv(args.mood, 5), 100))
        sleep == sleepScore(args.sleep)
        score == NumPlus(NumPlus(NumPlus(NumPlus(NumTimes(Weight(2, 5), urge),
                                                 NumTimes(Weight(1, 4), miss)),
                                         NumTimes(Weight(3, 20), energy)),
                                 NumTimes(Weight(1, 10), mood)),
                         NumTimes(Weight(1, 10), sleep))
        final == pct(score)
    IN [score |-> final, grade |-> gradeOf(final),
        breakdown |-> [urge |-> urge, miss |-> miss, energy |-> energy,
                       mood |-> mood, sleep |-> sleep]]

\* What TodayScreen passes for the snapshot day: its urges, missions and
\* ratings.
todayArgs(day) ==
    [todays |-> day.urges, missions |-> day.missions, energy |-> day.energy,
     mood |-> day.mood, sleep |-> day.sleep]

ScTodayScore ==
    /\ Unscored
    /\ \E k \in DOMAIN state.days :
           Scored("calcDailyScore", state.days[k],
                  calcDailyScore(todayArgs(state.days[k])))

ScoringNext ==
    \/ ScTodayScore
    \/ ScWeeklyRank
    \/ ScUrgeResistPercent
    \/ ScCalcDailyScoreFromDay
    \/ ScCalcRiskFromDay
    \/ ScCalcStreakFromState
    \/ ScCalcWeeklyRank

ScoringSpec == ScoringInit /\ [][ScoringNext]_vars

(* ------------------------------ claims -------------------------------- *)
\* A well-formed LockInState of the current schema version.
WellFormedDay(d) ==
    DOMAIN d = {"day", "energy", "mood", "sleep", "spent", "timeBlocks",
                "missions", "urges", "updatedAt"}

WellFormed(s) ==
    /\ DOMAIN s = {"version", "days", "ui"}
    /\ s.version = SCHEMA_VERSION
    /\ DOMAIN s.ui = {"tab"}
    /\ s.ui.tab \in Tabs
    /\ \A k \in DOMAIN s.days : WellFormedDay(s.days[k])

\* Deep equality of two states.  A property that holds undefined and a
\* missing property are the same value: both read as undefined.
DefinedProps(o) == {f \in DOMAIN o : ~(f \in OptionalProps /\ o[f] = Undefined)}

SameUrge(a, b) ==
    /\ DefinedProps(a) = DefinedProps(b)
    /\ \A f \in DefinedProps(a) : a[f] = b[f]

SameDay(a, b) ==
    /\ DOMAIN a = DOMAIN b
    /\ \A f \in (DOMAIN a) \ {"urges"} : a[f] = b[f]
    /\ Len(a.urges) = Len(b.urges)
    /\ \A i \in 1..Len(a.urges) : SameUrge(a.urges[i], b.urges[i])

DeepEqual(a, b) ==
    /\ DOMAIN a = DOMAIN b
    /\ a.version = b.version
    /\ a.ui = b.ui
    /\ DOMAIN a.days = DOMAIN b.days
    /\ \A k \in DOMAIN a.days : SameDay(a.days[k], b.days[k])

\* Some urge of the state holds undefined in an optional property.
HoldsUndefined(s) ==
    \E k \in DOMAIN s.days : \E i \in 1..Len(s.days[k].urges) :
        s.days[k].urges[i].customLabel = Undefined

\* C1: right after a saveState(s) that returned, for a well-formed s of the
\* current schema version and whatever the store held before, loadState()
\* returns a state deep-equal to s.
C1_RoundTrip ==
    (lastOp = "saveState" /\ ~threw /\ WellFormed(state)) =>
        \A fail \in BOOLEAN :
            /\ ~loadState(store, now, fail).threw
            /\ DeepEqual(loadState(store, now, fail).ret, state)

\* C1 happens: a state with a day whose urge came from the log modal was
\* saved over a store that held something else at the canonical key and had
\* legacy keys.
C1_Witness ==
    /\ lastOp = "saveState" /\ ~threw /\ WellFormed(state)
    /\ HoldsUndefined(state)
    /\ pre.store[KEY_STATE] # store[KEY_STATE]
    /\ store[KEY_URGES] # Absent

\* C2: after upsertDay(s, d) (alone or inside commitDay), getDay of the
\* result at d.day is d with updatedAt set to the time of the upsert, whether
\* or not s had an entry at d.day.
C2_UpsertThenGet ==
    (lastOp \in {"upsertDay", "commitDay"} /\ ~threw) =>
        getDay(state, arg.day, now) = [arg EXCEPT !.updatedAt = now - 1]

\* C2 happens: an existing, different entry was overwritten at a time other
\* than the snapshot's own updatedAt.
C2_Witness ==
    /\ lastOp = "upsertDay"
    /\ Has(pre.state.days, arg.day)
    /\ pre.state.days[arg.day].energy # arg.energy
    /\ arg.updatedAt # now - 1

\* The canonical entry is present and is not a usable current-version state.
Malformed(raw) ==
    \/ raw.kind \in {"empty", "garbage", "null", "number", "array"}
    \/ /\ raw.kind = "object"
       /\ \/ ~Has(raw.val, "version")
          \/ ~Has(raw.val, "days")
          \/ ~Has(raw.val, "ui")
          \/ raw.val.version # SCHEMA_VERSION

\* C8: when the canonical key is present and its value is unparsable, not an
\* object, lacks version, days or ui, or has another version, loadState()
\* returns a fresh default state.
C8_MalformedGivesDefault ==
    (lastOp = "loadState" /\ ~threw /\ Malformed(pre.store[KEY_STATE])) =>
        state = defaultState

\* C8 without the empty string: every other malformed value gives the fresh
\* default state, and the store is left as it was.
C8_NonEmptyMalformedGivesDefault ==
    (lastOp = "loadState" /\ Malformed(pre.store[KEY_STATE])
        /\ pre.store[KEY_STATE] # EmptyText) =>
        (~threw /\ state = defaultState /\ store = pre.store)

\* The canonical entry is a current-version state whose ui has no tab.
LacksOnlyTab(raw) ==
    /\ raw.kind = "object"
    /\ Has(raw.val, "version") /\ Has(raw.val, "days") /\ Has(raw.val, "ui")
    /\ raw.val.version = SCHEMA_VERSION
    /\ ~Has(raw.val.ui, "tab")

\* C9: when the stored state has the current version, days and a ui without
\* tab, loadState() returns ui.tab = "today" with days and version as stored.
C9_TabBackfilled ==
    (lastOp = "loadState" /\ LacksOnlyTab(pre.store[KEY_STATE])) =>
        /\ ~threw
        /\ state.ui.tab = "today"
        /\ state.days = pre.store[KEY_STATE].val.days
        /\ state.version = pre.store[KEY_STATE].val.version

\* C9 happens: the stored state had a day and no tab.
C9_Witness ==
    /\ lastOp = "loadState"
    /\ LacksOnlyTab(pre.store[KEY_STATE])
    /\ DOMAIN pre.store[KEY_STATE].val.days # {}
    /\ pre.state.days # state.days

\* C10: right after resetAll(), whatever the store held, loadState() returns
\* empty days and ui.tab = "today" and leaves none of the eight keys.
C10_LoadAfterReset ==
    (lastOp = "resetAll") =>
        \A fail \in BOOLEAN :
            /\ ~loadState(store, now, fail).threw
            /\ loadState(store, now, fail).ret.days = EmptyObj
            /\ loadState(store, now, fail).ret.ui.tab = "today"
            /\ \A k \in AllKeys : loadState(store, now, fail).store[k] = Absent

\* C10 happens: the store held a canonical state and non-default legacy
\* values when resetAll ran.
C10_Witness ==
    /\ lastOp = "resetAll"
    /\ pre.store[KEY_STATE].kind = "object"
    /\ pre.store[KEY_SPENT] # Absent
    /\ pre.store[KEY_URGES] # Absent

\* C3: in every reachable state of the App, every snapshot stored in
\* state.days under key k has its day field equal to k.
C3_DayFieldIsKey ==
    (mounted /\ Has(state, "days")) =>
        \A k \in DOMAIN state.days : state.days[k].day = k

\* C4: in every reachable state of the App, the version of the in-memory
\* state and of the persisted canonical state is the schema constant.
C4_VersionIsCurrent ==
    mounted =>
        /\ state.version = SCHEMA_VERSION
        /\ store[KEY_STATE].kind = "object" =>
               store[KEY_STATE].val.version = SCHEMA_VERSION

\* C5: no writing operation of the gateway (saveState, commitDay, the
\* canonical write of the migration inside loadState) lets a failing setItem
\* propagate to its caller.
C5_WriteFailureSwallowed ==
    (lastOp \in {"saveState", "commitDay", "loadState"}) => ~threw

\* What onImportFile told the user is a failure.
ReportsFailure(msg) == msg \notin {NoAlert, "Backup imported successfully."}

\* The file is a JSON object whose version is not 1 or which has no state.
BadVersionOrNoState(file) ==
    /\ file.kind = "object"
    /\ ~Has(file.val, "state") \/ file.val.version # 1

\* The file has version 1 and a state that lacks days or lacks ui.
LacksDaysOrUi(file) ==
    /\ file.kind = "object"
    /\ Has(file.val, "state") /\ file.val.version = 1
    /\ ~Has(file.val.state, "days") \/ ~Has(file.val.state, "ui")

\* C6: importing a backup whose version is not 1, or which has no state,
\* leaves the in-memory state and the persisted state unchanged and reports a
\* failure to the user.
C6_BadBackupRejected ==
    [][(lastOp' = "onImportFile" /\ gestures' # gestures
            /\ BadVersionOrNoState(arg'.file)) =>
        (state' = state /\ store' = store /\ ReportsFailure(alert'))]_vars

\* C7: importing a version-1 backup whose state lacks days or lacks ui
\* leaves the in-memory state and the persisted state unchanged and reports a
\* failure.
C7_IncompleteStateRejected ==
    [][(lastOp' = "onImportFile" /\ gestures' # gestures
            /\ LacksDaysOrUi(arg'.file)) =>
        (state' = state /\ store' = store /\ ReportsFailure(alert'))]_vars

\* Every legacy value is missing, unparsable or its default.
AllLegacyDefault(st) ==
    \A k \in LegacyKeys : st[k] \in {Absent, EmptyText, Garbage, LegacyFallback(k)}

\* C11: when the canonical key is absent and every legacy value is missing,
\* unparsable or its default, loadState() returns a fresh default state and
\* leaves the store exactly as it was.
C11_DefaultLegacyIsNoOp ==
    (lastOp = "loadState" /\ pre.store[KEY_STATE] = Absent
        /\ AllLegacyDefault(pre.store)) =>
        (~threw /\ state = defaultState /\ store = pre.store)

\* C11 happens: legacy keys were present, holding defaults or garbage, and a
\* caller that held days got the default state back.
C11_Witness ==
    /\ lastOp = "loadState"
    /\ pre.store[KEY_STATE] = Absent
    /\ AllLegacyDefault(pre.store)
    /\ pre.store[KEY_ENERGY] # Absent
    /\ pre.store[KEY_URGES] # Absent

\* C12: when the canonical key is absent and some legacy value is
\* non-default, loadState() returns a state whose only day is stored under
\* today's YYYY-MM-DD key (the key getDay(state, todayKey()) reads) and holds
\* the legacy values; the canonical key holds that state and the legacy keys
\* are removed.
C12_MigratedUnderTodayKey ==
    (lastOp = "loadState" /\ ~threw /\ pre.store[KEY_STATE] = Absent
        /\ hasAnyLegacy(pre.store)) =>
        /\ DOMAIN state.days = {todayKey(now - 1)}
        /\ getDay(state, todayKey(now - 1), now - 1) = legacyDay(pre.store, now - 1)
        /\ store[KEY_STATE] = Stringify(state)
        /\ \A k \in LegacyKeys : store[k] = Absent

\* C13: after a loadState() that migrated, every later loadState(), at any
\* later time and whether or not a write would fail, takes the canonical
\* path: it returns the days that were migrated, does not throw and leaves
\* the store as it is; so does the one after it.
C13_MigratesOnce ==
    (lastOp = "loadState" /\ ~threw /\ pre.store[KEY_STATE] = Absent
        /\ hasAnyLegacy(pre.store)) =>
        \A t \in now..MaxNow, fail \in BOOLEAN :
            LET second == loadState(store, t, fail)
                third == loadState(second.store, t, fail)
            IN /\ getItem(store, KEY_STATE).kind = "object"
               /\ ~second.threw /\ ~third.threw
               /\ second.ret.days = state.days
               /\ third.ret.days = state.days
               /\ second.store = store
               /\ third.store = store

\* C13 happens: a store with only legacy keys, urges among them, was
\* migrated.
C13_Witness ==
    /\ lastOp = "loadState" /\ ~threw
    /\ pre.store[KEY_STATE] = Absent
    /\ hasAnyLegacy(pre.store)
    /\ pre.store[KEY_URGES] # Absent
    /\ DOMAIN state.days # {}

\* The days of the state loadState() would return from store st.
PersistedDays(st) == DOMAIN loadState(st, now, FALSE).ret.days

\* The operations of App that are no mutation of a day by the user.
NonMutating == {"mount", "midnightRollover", "setTab", "openLogModal", "undoTimer"}

\* C14: a day entry appears in state.days and in the persisted state only by
\* an explicit user mutation: mounting, rendering (getDay of a missing day),
\* switching tabs and the timers add no day to the in-memory state beyond
\* those loaded from the store, and none to the store.
C14_DaysOnlyByMutation ==
    [][(lastOp' \in NonMutating /\ ~crashed') =>
        /\ DOMAIN state'.days \subseteq (DOMAIN state.days) \cup PersistedDays(store)
        /\ PersistedDays(store') \subseteq PersistedDays(store)]_vars

\* C20: in every reachable state of the App, every urge of type custom has a
\* customLabel that is non-empty after trimming.
C20_CustomHasLabel ==
    (mounted /\ Has(state, "days")) =>
        \A k \in DOMAIN state.days :
            \A i \in 1..Len(state.days[k].urges) :
                LET u == state.days[k].urges[i]
                IN u.type = "custom" =>
                       /\ Has(u, "customLabel")
                       /\ u.customLabel # Undefined
                       /\ Trim(u.customLabel) # ""

\* C15: calcStreakFromState(state, ref) is the largest n such that each of
\* the n consecutive days ref, ref-1, ..., ref-(n-1) has at least one urge and
\* all of its urges resisted; it is 0 when the reference day has no urges or
\* is absent, and a day without urges ends the count.
RefDay == DayIndex(arg.today)

RunOfClean(n) == \A j \in 0..(n - 1) : CleanDay(state, RefDay - j)

C15_StreakIsLongestCleanRun ==
    lastOp = "calcStreakFromState" =>
        /\ result \in 0..RefDay
        /\ RunOfClean(result)
        /\ \A n \in (result + 1)..RefDay : ~RunOfClean(n)
        /\ Len(UrgesOfDay(state, RefDay)) = 0 => result = 0

\* Today and yesterday clean, the day before with an urge given in to: 2.
C15_Witness ==
    /\ lastOp = "calcStreakFromState"
    /\ RefDay = 3
    /\ result = 2
    /\ \E i \in 1..Len(UrgesOfDay(state, 1)) : ~UrgesOfDay(state, 1)[i].resisted

\* Today without urges after two clean days: 0.
C15_WitnessEmptyToday ==
    /\ lastOp = "calcStreakFromState"
    /\ RefDay = 3
    /\ Has(state.days, KeyOfDay(3))
    /\ Len(UrgesOfDay(state, 3)) = 0
    /\ CleanDay(state, 2) /\ CleanDay(state, 1)
    /\ result = 0

\* C16: for a day with integer energy, mood and hours of sleep,
\* calcDailyScoreFromDay returns score = round(0.40 * urgeResistPercent
\* + 0.25 * missionCompletionPercent + 0.15 * energyPct + 0.10 * moodPct
\* + 0.10 * sleepScore) clamped to 0..100, energy and mood clamped to 1..5
\* first, and the grade is CONTROLLED iff score >= 90, SOLID iff
\* 75 <= score < 90, UNSTABLE iff 60 <= score < 75, RED iff score < 60; a day
\* with energy 5, mood 5, sleep 7, one done mission and only resisted urges
\* scores 100 CONTROLLED.
RoundHalfUp(num, den) == (2 * num + den) \div (2 * den)

WeightedHundredths(day) ==
    40 * urgeResistPercent(day.urges)
    + 25 * missionCompletionPercent(day.missions)
    + 15 * (20 * clamp(day.energy, 1, 5))
    + 10 * (20 * clamp(day.mood, 1, 5))
    + 10 * sleepScore(clamp(day.sleep, 0, 24))

PerfectDay(day) ==
    /\ day.energy = 5 /\ day.mood = 5 /\ day.sleep = 7
    /\ Len(day.missions) = 1 /\ IsActiveDone(day.missions[1])
    /\ Len(day.urges) > 0
    /\ \A i \in 1..Len(day.urges) : day.urges[i].resisted

C16_DailyScoreAndGrade ==
    lastOp = "calcDailyScoreFromDay" =>
        /\ result.score = clamp(RoundHalfUp(WeightedHundredths(arg), 100), 0, 100)
        /\ result.grade = "CONTROLLED" <=> result.score >= 90
        /\ result.grade = "SOLID" <=> (result.score >= 75 /\ result.score < 90)
        /\ result.grade = "UNSTABLE" <=> (result.score >= 60 /\ result.score < 75)
        /\ result.grade = "RED" <=> result.score < 60
        /\ PerfectDay(arg) => (result.score = 100 /\ result.grade = "CONTROLLED")

\* A score on a grade boundary, reached with ratings outside 1..5.
C16_Witness ==
    /\ lastOp = "calcDailyScoreFromDay"
    /\ result.score \in {60, 75, 90}
    /\ arg.energy \notin 1..5

\* The perfect day.
C16_WitnessPerfectDay ==
    /\ lastOp = "calcDailyScoreFromDay"
    /\ PerfectDay(arg)
    /\ result.score = 100

\* C17: urgeResistPercent returns an integer in 0..100 equal to
\* round(100 * resistedCount / total) with halves rounded up, and 0 for the
\* empty list; 2 resisted of 3 gives 67.
C17_ResistPercentIsRounded ==
    lastOp = "urgeResistPercent" =>
        /\ result \in 0..100
        /\ result = IF Len(arg) = 0 THEN 0
                    ELSE RoundHalfUp(100 * Count(arg, IsResisted), Len(arg))

\* The cases the claim names come out as it says.
C17_NamedCases ==
    lastOp = "urgeResistPercent" =>
        /\ Len(arg) = 0 => result = 0
        /\ (Len(arg) = 3 /\ Count(arg, IsResisted) = 2) => result = 67

\* C18: calcRiskFromDay triggers each of the four reasons independently
\* (sleep < 6, mood <= 2, energy <= 2, at least 2 urges not resisted) and
\* returns HIGH iff at least 3 reasons are triggered, ELEVATED iff 1 or 2 are,
\* LOW iff none is; gaveIn is the number of urges not resisted.
InSeq(x, seq) == \E i \in 1..Len(seq) : seq[i] = x

NotResisted(day) == Cardinality({i \in 1..Len(day.urges) : ~day.urges[i].resisted})

C18_RiskReasonsAndLevel ==
    lastOp = "calcRiskFromDay" =>
        /\ InSeq("Low sleep", result.reasons) <=> arg.sleep < 6
        /\ InSeq("Low mood", result.reasons) <=> arg.mood <= 2
        /\ InSeq("Low energy", result.reasons) <=> arg.energy <= 2
        /\ InSeq("Multiple slip events", result.reasons) <=> NotResisted(arg) >= 2
        /\ \A i, j \in 1..Len(result.reasons) :
               result.reasons[i] = result.reasons[j] => i = j
        /\ result.level = "HIGH" <=> Len(result.reasons) >= 3
        /\ result.level = "ELEVATED" <=> Len(result.reasons) \in 1..2
        /\ result.level = "LOW" <=> Len(result.reasons) = 0
        /\ result.gaveIn = NotResisted(arg)

\* Six hours of sleep is not low sleep; the other three reasons make it HIGH.
C18_Witness ==
    /\ lastOp = "calcRiskFromDay"
    /\ arg.sleep = 6
    /\ result.level = "HIGH"
    /\ Len(result.reasons) = 3

\* C19: calcWeeklyRank returns score = round(100 * resisted / total - 6 * d)
\* clamped to 0..100, d the number of distinct calendar days holding an entry
\* that was not resisted and the percentage 0 for the empty list; the rank is
\* CONTROLLED WEEK iff score >= 90, SOLID WEEK iff >= 75, UNSTABLE iff >= 60,
\* else RELAPSE WEEK; 10 entries, 5 resisted, slips on 2 days gives 38,
\* RELAPSE WEEK.
SlipDayCount(entries) ==
    Cardinality({dayKey(entries[i].ts) :
                    i \in {j \in 1..Len(entries) : ~entries[j].resisted}})

\* round(100 * resisted / total - 6 * d) clamped: a negative value gives 0.
WeeklyScore(entries) ==
    LET total == Len(entries)
        num == IF total = 0 THEN 0
               ELSE 100 * Count(entries, IsResisted) - 6 * SlipDayCount(entries) * total
    IN IF num <= 0 THEN 0
       ELSE clamp(RoundHalfUp(num, total), 0, 100)

C19_WeeklyScoreAndRank ==
    lastOp = "calcWeeklyRank" =>
        /\ result.score = WeeklyScore(arg)
        /\ result.slipDays = SlipDayCount(arg)
        /\ result.rank = ( IF result.score >= 90 THEN "CONTROLLED WEEK"
                           ELSE IF result.score >= 75 THEN "SOLID WEEK"
                           ELSE IF result.score >= 60 THEN "UNSTABLE"
                           ELSE "RELAPSE WEEK" )

\* The cases the claim names come out as it says.
C19_NamedCases ==
    lastOp = "calcWeeklyRank" =>
        /\ Len(arg) = 0 => (result.score = 0 /\ result.rank = "RELAPSE WEEK")
        /\ (Len(arg) = 10 /\ Count(arg, IsResisted) = 5 /\ SlipDayCount(arg) = 2)
               => (result.score = 38 /\ result.rank = "RELAPSE WEEK")

\* Every weekly score that differs from the claimed one comes from a list
\* whose percentage is exactly a half.
C19_OnlyHalvesDiffer ==
    (lastOp = "calcWeeklyRank" /\ result.score # WeeklyScore(arg)) =>
        /\ (200 * Count(arg, IsResisted)) % (2 * Len(arg)) = Len(arg)
        /\ result.score = WeeklyScore(arg) - 1

\* C21: when commitDay(state, snapshot) returns s', the canonical key holds
\* the serialization of s', a loadState() at that moment returns a state
\* equal to s', and saving s' again leaves the stored text identical.
C21_CommitIsDurable ==
    (lastOp = "commitDay" /\ ~threw) =>
        /\ store[KEY_STATE] = Stringify(state)
        /\ \A fail \in BOOLEAN :
               /\ ~loadState(store, now, fail).threw
               /\ DeepEqual(loadState(store, now, fail).ret, state)
        /\ saveState(store, state, FALSE).store = store

\* A commit that replaced what the canonical key held, with a snapshot whose
\* urge holds undefined properties that the serialization leaves out.
C21_Witness ==
    /\ lastOp = "commitDay" /\ ~threw
    /\ HoldsUndefined(state)
    /\ pre.store[KEY_STATE] # store[KEY_STATE]
    /\ pre.store[KEY_STATE] # Absent

\* C22: the result of upsertDay(s, d) differs from s only at days[d.day]:
\* every other day entry, the version and the ui record are those of s, and
\* s is what it was; setTab(s, t) changes only ui.tab and leaves days and
\* version as in s.
OnlyDayChanged(s, r, day) ==
    /\ DOMAIN r = DOMAIN s
    /\ \A f \in (DOMAIN s) \ {"days"} : r[f] = s[f]
    /\ DOMAIN r.days = (DOMAIN s.days) \cup {day}
    /\ \A k \in (DOMAIN s.days) \ {day} : r.days[k] = s.days[k]

OnlyTabChanged(s, r) ==
    /\ DOMAIN r = DOMAIN s
    /\ \A f \in (DOMAIN s) \ {"ui"} : r[f] = s[f]
    /\ DOMAIN r.ui = (DOMAIN s.ui) \cup {"tab"}
    /\ \A f \in (DOMAIN s.ui) \ {"tab"} : r.ui[f] = s.ui[f]

C22_UpsertAndSetTabFrame ==
    /\ lastOp = "upsertDay" =>
           /\ OnlyDayChanged(pre.state, state, arg.day)
           /\ upsertDay(pre.state, arg, now - 1) = state
    /\ lastOp = "setTab" =>
           /\ OnlyTabChanged(pre.state, state)
           /\ state.ui.tab = arg.tab
           /\ setTab(pre.state, arg.tab) = state

\* An upsert into a state that held another day, with urges, and not the
\* day upserted.
C22_Witness ==
    /\ lastOp = "upsertDay"
    /\ \E k \in DOMAIN pre.state.days : k # arg.day /\ pre.state.days[k].urges # <<>>
    /\ ~Has(pre.state.days, arg.day)
    /\ state # pre.state

\* A setTab on a state with days that changed the tab.
C22_WitnessSetTab ==
    /\ lastOp = "setTab"
    /\ pre.state.days # EmptyObj
    /\ pre.state.ui.tab # state.ui.tab

\* C23: the Weekly screen shows as Weekly Rank the rank calcWeeklyRank
\* computes for the urges whose timestamps fall in the current
\* Monday-to-Sunday week, for every list of urges passed to the screen.
MondayOf(t) == DayIndex(t) - ((weekdayOf(DayIndex(t)) + 6) % 7)

InWeekOf(u, t) == DayIndex(u.ts) \in MondayOf(t)..(MondayOf(t) + 6)

C23_WeeklyRankShown ==
    lastOp = "weeklyRank" =>
        result = calcWeeklyRank(SelectSeq(arg.urges, LAMBDA u : InWeekOf(u, arg.now))).rank

\* The screen keeps the urges of the Monday after the week, all but those of
\* its last instant.
C23_WeekFilterIsMondayToSunday ==
    lastOp = "weeklyRank" =>
        urgesThisWeek(arg.urges, arg.now)
            = SelectSeq(arg.urges, LAMBDA u : InWeekOf(u, arg.now))

\* Whatever the urges, the screen shows the placeholder.
C23_AlwaysPlaceholder == lastOp = "weeklyRank" => result = NoRank

\* C24: after hydration, for any interleaving of mutations with firings of
\* the debounce timer and with no storage write failing, once mutations stop
\* the persisted canonical state eventually equals the latest in-memory state
\* and stays equal; a debounced save of an older state is never the last
\* write.
Persisted == store[KEY_STATE] = Stringify(state)

C24_EventuallyPersisted == <>[](mounted => Persisted)

\* The pending debounced save holds the latest state, and with no save
\* pending the store holds it.
C24_PendingSaveIsLatest ==
    mounted =>
        IF saveDebounce.armed THEN saveDebounce.state = state ELSE Persisted

\* The same while the component tree is alive.
C24_PendingSaveIsLatestWhileAlive ==
    (mounted /\ ~crashed) =>
        IF saveDebounce.armed THEN saveDebounce.state = state ELSE Persisted

C24_EventuallyPersistedWhileAlive == <>[]((mounted /\ ~crashed) => Persisted)

\* C25: a backup import is all-or-nothing: when onImportFile finishes, either
\* success is reported and the in-memory and the persisted state are the
\* imported state, or failure is reported and both are what they were before
\* the import, also when the store write fails after validation passed.
\* (The App.tsx that alerts nothing is taken to report through its events.)
ImportedAll ==
    /\ variant = "C" \/ alert' = "Backup imported successfully."
    /\ Has(arg'.file, "val") /\ Has(arg'.file.val, "state")
    /\ state' = arg'.file.val.state
    /\ store'[KEY_STATE] = Stringify(state')

ImportedNothing ==
    /\ variant = "C" \/ alert' \notin {NoAlert, "Backup imported successfully."}
    /\ state' = state
    /\ store' = store

ImportStep == lastOp' = "onImportFile" /\ gestures' # gestures

C25_ImportAllOrNothing ==
    [][ImportStep => (ImportedAll \/ ImportedNothing)]_vars

\* A rejected file leaves state and store alone, and an accepted one whose
\* write succeeds is in both.
C25_AllOrNothingUnlessWriteFails ==
    [][(ImportStep /\ alert' # Alerted("QuotaExceededError"))
          => (ImportedAll \/ ImportedNothing)]_vars

\* C26: when today's urges were cleared with resetTriggersToday and
\* undoReset is called inside the undo window, today's urge list becomes the
\* list from before the reset, while what was changed in today's snapshot
\* between the reset and the undo and every other day stay as they were just
\* before the undo; once the window has expired, undoReset changes nothing.
UndoStep == lastOp' = "undoReset" /\ ~threw' /\ gestures' # gestures

\* Day k of r is day k of s with the urge list us, updatedAt apart, and the
\* rest of r is the rest of s.
OnlyUrgesBecame(s, r, k, us) ==
    /\ Has(s.days, k) /\ Has(r.days, k)
    /\ DOMAIN r = DOMAIN s
    /\ \A f \in (DOMAIN s) \ {"days"} : r[f] = s[f]
    /\ DOMAIN r.days = DOMAIN s.days
    /\ \A other \in (DOMAIN s.days) \ {k} : r.days[other] = s.days[other]
    /\ DOMAIN r.days[k] = DOMAIN s.days[k]
    /\ \A f \in (DOMAIN s.days[k]) \ {"urges", "updatedAt"} :
          r.days[k][f] = s.days[k][f]
    /\ r.days[k].urges = us

C26_UndoRestoresOnlyUrges ==
    [][UndoStep =>
          IF now < undo.expiresAt
          THEN OnlyUrgesBecame(state, state', undo.prevDay.day, undo.prevDay.urges)
          ELSE state' = state /\ store' = store]_vars

\* Inside the window the urge list is the one from before the reset.
C26_UrgesRestoredInWindow ==
    [][(UndoStep /\ now < undo.expiresAt)
          => state'.days[undo.prevDay.day].urges = undo.prevDay.urges]_vars

\* What was edited in the snapshot since the reset stays.
C26_EditsSinceResetKept ==
    [][(UndoStep /\ now < undo.expiresAt)
          => \A f \in (DOMAIN state.days[undo.prevDay.day]) \ {"urges", "updatedAt"} :
                state'.days[undo.prevDay.day][f] = state.days[undo.prevDay.day][f]]_vars

\* After the window undoReset changes nothing.
C26_NothingAfterWindow ==
    [][(UndoStep /\ now >= undo.expiresAt) => state' = state /\ store' = store]_vars

\* undoReset puts the whole snapshot taken by the reset back.
C26_WholeSnapshotRestored ==
    [][UndoStep => state' = upsertDay(state, undo.prevDay, now)]_vars

\* C27: after a confirmed fullResetEverything the in-memory state has empty
\* days, and no event that was pending at the reset (a scheduled debounced
\* save, the undo timer, an undo action) puts day data back into the state
\* or the store: the persisted state is absent or has empty days until the
\* user makes a new mutation.
ResetStep == lastOp' = "fullResetEverything" /\ ~threw' /\ gestures' # gestures

\* The canonical key of st is absent or holds a state with empty days, and
\* no legacy key is left.
StoreErased(st) ==
    /\ \A k \in LegacyKeys : getItem(st, k) = Absent
    /\ \/ getItem(st, KEY_STATE) = Absent
       \/ \E s \in {defaultState, setTab(defaultState, "history"),
                    setTab(defaultState, "weekly")} :
             getItem(st, KEY_STATE) = Stringify(s)

\* Nothing holds day data: not the state, not the store, not the pending
\* save, and no undo is on offer.
Erased(s, st, pending, u, bar) ==
    /\ Has(s, "days") /\ s.days = EmptyObj
    /\ StoreErased(st)
    /\ pending.armed => (Has(pending.state, "days") /\ pending.state.days = EmptyObj)
    /\ ~u.set /\ ~bar

ErasedNow == Erased(state, store, saveDebounce, undo, barShown)

ErasedNext == Erased(state', store', saveDebounce', undo', barShown')

C27_ResetErases == [][ResetStep => ErasedNext]_vars

C27_WitnessRollover ==
    /\ lastOp = "midnightRollover" /\ variant = "B"
    /\ DOMAIN state.days = {todayKey(now)}
    /\ undoTimer.armed

\* C28: in every reachable state, with the clock advancing between renders
\* and handler calls (also across midnight), every urge stored in the
\* snapshot of day k has a timestamp whose local calendar day is k, and no
\* urge identifier occurs in the snapshots of two different days; this
\* covers the urges added by addUrge, restored by undoReset and carried over
\* by the legacy migration.
\* Key k names the calendar day of ts, in either of the two spellings of a
\* day that the program uses for its keys.
IsDayOf(k, ts) == k = dayKey(ts) \/ k = fmtShort(ts)

UrgesOnTheirDay(s) ==
    \A k \in DOMAIN s.days :
        \A i \in 1..Len(s.days[k].urges) : IsDayOf(k, s.days[k].urges[i].ts)

UrgeIdsOf(s, k) == {s.days[k].urges[i].id : i \in 1..Len(s.days[k].urges)}

IdsInOneDay(s) ==
    \A k1, k2 \in DOMAIN s.days : k1 # k2 => UrgeIdsOf(s, k1) \cap UrgeIdsOf(s, k2) = {}

C28_UrgesBelongToTheirDay ==
    (mounted /\ Has(state, "days")) => (UrgesOnTheirDay(state) /\ IdsInOneDay(state))

\* No identifier is in two days.
C28_IdsInOneDay == (mounted /\ Has(state, "days")) => IdsInOneDay(state)

\* The migration files the legacy urges under their day when it runs on it.
C28_MigratedOnTheirDay ==
    (lastOp = "mount" /\ ~threw /\ now < TicksPerDay) => UrgesOnTheirDay(state)

\* addUrge files the urge under the day of its timestamp when no midnight
\* passed since the last render.
C28_AddedOnRenderDay ==
    [][(lastOp' = "addUrge" /\ ~threw' /\ gestures' # gestures /\ tKey = todayKey(now))
          => IsDayOf(tKey, state'.days[tKey].urges[1].ts)]_vars

\* addUrge always files the urge under the day of its timestamp.
C28_AddedOnItsDay ==
    [][(lastOp' = "addUrge" /\ ~threw' /\ gestures' # gestures)
          => IsDayOf(tKey, state'.days[tKey].urges[1].ts)]_vars

\* C29: deleteEntry(day, id) removes from that day's urge list exactly the
\* entries with that identifier, leaves the day's other fields (updatedAt
\* apart) and all other days unchanged, persists the result before it
\* returns, and leaves state and store unchanged when the day is not in the
\* state; the clear-day action of the History screen, which calls it once
\* per urge of the selected day, ends with that day's urge list empty and
\* all other days unchanged.
DeleteStep == lastOp' = "deleteEntry" /\ ~threw' /\ gestures' # gestures

ClearStep == lastOp' = "clearSelectedDay" /\ ~threw' /\ gestures' # gestures

DeleteFrame ==
    IF Has(state.days, arg'.day)
    THEN /\ OnlyUrgesBecame(state, state', arg'.day,
                            SelectSeq(state.days[arg'.day].urges,
                                      LAMBDA u : u.id # arg'.id))
         /\ store'[KEY_STATE] = Stringify(state')
    ELSE state' = state /\ store' = store

ClearFrame ==
    IF Len(state.days[arg'.day].urges) = 0
    THEN state' = state /\ store' = store
    ELSE OnlyUrgesBecame(state, state', arg'.day, <<>>)

C29_DeleteAndClearFrame ==
    [][(DeleteStep => DeleteFrame) /\ (ClearStep => ClearFrame)]_vars

\* The snapshot under key arg.day names that day.
TargetKeyed == Has(state.days, arg'.day) => state.days[arg'.day].day = arg'.day

\* The same for a snapshot that names the key it is stored under.
C29_FrameOfKeyedDay ==
    [][((DeleteStep /\ TargetKeyed) => DeleteFrame)
          /\ ((ClearStep /\ TargetKeyed) => ClearFrame)]_vars

\* deleteEntry alone.
C29_DeleteFrame == [][DeleteStep => DeleteFrame]_vars

\* The identifier given is not in the day: only updatedAt changes.
C29_AbsentIdKeepsUrges ==
    [][(DeleteStep /\ TargetKeyed /\ Has(state.days, arg'.day)
          /\ arg'.id \notin UrgeIdsOf(state, arg'.day))
          => state'.days[arg'.day].urges = state.days[arg'.day].urges]_vars

\* C30: for every day snapshot (also one with energy or mood outside 1..5,
\* as an import or the migration brings in), the daily score and grade that
\* the Today screen computes equal those that calcDailyScoreFromDay computes
\* for the same snapshot and that the History screen shows.
C30_TodayScoreIsHistoryScore ==
    lastOp = "calcDailyScore" =>
        /\ result.score = calcDailyScoreFromDay(arg).score
        /\ result.grade = calcDailyScoreFromDay(arg).grade

\* The two agree on every snapshot whose ratings are 1 or more.
C30_SameFromOneUp ==
    (lastOp = "calcDailyScore" /\ arg.energy >= 1 /\ arg.mood >= 1) =>
        /\ result.score = calcDailyScoreFromDay(arg).score
        /\ result.grade = calcDailyScoreFromDay(arg).grade

\* A rating of 0 counts as 0 on the Today screen and as 1 elsewhere.
C30_ZeroEnergyScoresLower ==
    (lastOp = "calcDailyScore" /\ arg.energy = 0) =>
        /\ result.breakdown.energy = 0
        /\ calcDailyScoreFromDay(arg).breakdown.energy = 20
        /\ result.score < calcDailyScoreFromDay(arg).score
=============================================================================
